---- MODULE Spec2Model ----
(***************************************************************************)
(* Model of the Calibre MCP server (access-calibre-deno): the stdio        *)
(* request loop (src/src/mcp-native.ts), the tool-call adapter and the     *)
(* EPUB engine of CalibreClient (src/unnamed/part_000).                    *)
(*                                                                         *)
(* Strings are sequences of tokens.  The tokens "/", ".", "#", "%", " "    *)
(* are the characters they show; "%61" is the escape sequence that         *)
(* decodeURIComponent turns into "a"; "Idot" is U+0130, whose lower case   *)
(* is the two code units <<"i", "dot">>; every other token is one          *)
(* character (or an opaque run of name characters) without special         *)
(* meaning.  An entity is the token "&" followed by the token of its name  *)
(* ("amp;", "lt;", "gt;", "quot;", "nbsp;").  String indices are 0-based   *)
(* as in the source.                                                       *)
(***************************************************************************)
EXTENDS Integers, Sequences, FiniteSets, TLC

\* ------------------------------------------------------------------ bounds
MaxLines == 2          \* input lines the loop reads before end of input
MaxHtmlLen == 3        \* length of the chapter markups read in chunks
MaxTextLen == 3        \* length of the enumerated chapter markups that are searched
MaxQueryLen == 2       \* length of the enumerated search queries
MaxChapters == 2       \* chapters of the books that are searched
MaxSpine == 3          \* item references in a spine
MaxItems == 2          \* items of the enumerated manifests
MaxNavPoints == 2      \* entries of a navigation document
MaxSegments == 3       \* segments of the enumerated manifest hrefs
MaxEntityLen == 3      \* tokens of the enumerated markups that hold entities
MaxCalls == 5          \* calls of one chunked read of a chapter

\* ------------------------------------------------------- program constants
MaxHits == 50          \* searchInBook: results.length >= 50
SnippetWindow == 200   \* searchInBook: const snippetWindow = 200
DefaultLength == 30000 \* get_chapter_content_markdown: length = 30000
DefaultOffset == 0     \* get_chapter_content_markdown: offset = 0
MethodNotFound == -32601
InvalidParams == -32602
InternalError == -32603

\* ---------------------------------------------------------- string helpers
Min2(a, b) == IF a < b THEN a ELSE b
Max2(a, b) == IF a > b THEN a ELSE b
Clamp(x, n) == Max2(0, Min2(x, n))

SetMin(S) == CHOOSE x \in S : \A y \in S : x <= y

\* F applied to the value of x, x being evaluated once
Bound(x, F(_)) == CHOOSE r \in {F(v) : v \in {x}} : TRUE

\* all sequences over S of length 0..n
SeqsUpTo(S, n) == UNION {[1..k -> S] : k \in 0..n}

\* substring with the arguments clamped to the last index, not to the length
SubstringClampedToLastIndex(s, start, end) ==
  LET a == Clamp(start, Len(s) - 1)
      b == Clamp(end, Len(s))
  IN  SubSeq(s, Min2(a, b) + 1, Max2(a, b))

\* String.prototype.substring(start, end): both arguments are clamped to
\* [0, length] and swapped when start > end.
Substring(s, start, end) ==
  LET a == Clamp(start, Len(s))
      b == Clamp(end, Len(s))
  IN  SubSeq(s, Min2(a, b) + 1, Max2(a, b))

\* String.prototype.indexOf(q, from): from is clamped to [0, length]; the
\* empty string is found at the clamped position.
IndexOf(s, q, from) ==
  LET f == Clamp(from, Len(s))
      hits == {i \in f..(Len(s) - Len(q)) : SubSeq(s, i + 1, i + Len(q)) = q}
  IN  IF Len(q) = 0 THEN f
      ELSE IF hits = {} THEN -1 ELSE SetMin(hits)

LowerChar(c) ==
  CASE c = "A" -> <<"a">>
    [] c = "B" -> <<"b">>
    [] c = "Idot" -> <<"i", "dot">>
    [] OTHER -> <<c>>

\* String.prototype.toLowerCase(), character by character (the two halves
\* of the string are lowered separately and joined)
RECURSIVE ToLowerCase(_)
ToLowerCase(s) ==
  IF s = <<>> THEN <<>>
  ELSE IF Len(s) = 1 THEN LowerChar(s[1])
  ELSE LET h == Len(s) \div 2 IN
       ToLowerCase(SubSeq(s, 1, h)) \o ToLowerCase(SubSeq(s, h + 1, Len(s)))

IsSpace(c) == c \in {" ", "\n"}

RECURSIVE TrimStart(_)
TrimStart(s) ==
  IF s # <<>> /\ IsSpace(Head(s)) THEN TrimStart(Tail(s)) ELSE s

RECURSIVE TrimEnd(_)
TrimEnd(s) ==
  IF s # <<>> /\ IsSpace(s[Len(s)]) THEN TrimEnd(SubSeq(s, 1, Len(s) - 1)) ELSE s

Trim(s) == Bound(s, LAMBDA v : Bound(TrimStart(v), TrimEnd))

\* String.prototype.split("/"): the segments between separators, empty
\* segments included; never an empty list.
RECURSIVE Split(_)
Split(s) ==
  IF \A i \in 1..Len(s) : s[i] # "/" THEN <<s>>
  ELSE LET k == SetMin({i \in 1..Len(s) : s[i] = "/"})
       IN  <<SubSeq(s, 1, k - 1)>> \o Split(SubSeq(s, k + 1, Len(s)))

RECURSIVE Join(_)
Join(parts) ==
  IF parts = <<>> THEN <<>>
  ELSE IF Len(parts) = 1 THEN parts[1]
  ELSE parts[1] \o <<"/">> \o Join(Tail(parts))

\* a normaliser that drops ".." like "."
NormalizeStackWithoutParent(parts, stack) ==
  LET Named(part) == part \notin {<<>>, <<".">>, <<".", ".">>} IN
  stack \o SelectSeq(parts, Named)

RECURSIVE NormalizeStack(_, _)
NormalizeStack(parts, stack) ==
  IF parts = <<>> THEN stack
  ELSE LET part == Head(parts) IN
       IF part = <<".">> \/ part = <<>> THEN NormalizeStack(Tail(parts), stack)
       ELSE IF part = <<".", ".">>
            THEN NormalizeStack(Tail(parts),
                   IF Len(stack) > 0 THEN SubSeq(stack, 1, Len(stack) - 1) ELSE stack)
            ELSE NormalizeStack(Tail(parts), Append(stack, part))

_normalizePath(filePath) == Join(NormalizeStack(Split(filePath), <<>>))

\* ------------------------------------------------------------ the archive
\* An archive as the engine sees it:
\*   fetch   "ok", or why getEpubBuffer throws ("nometa": the metadata
\*           request failed, "noepub": the metadata lists no EPUB format,
\*           "fail": the download request failed)
\*   zipOk   FALSE when the bytes are no zip: reader.getEntries() throws
\*   entries the entries in archive order, each [filename, kind, data] with
\*           kind "file" (readable), "dir" (no getData) or "corrupt" (a file
\*           whose getData() throws)
NoEntry == [filename |-> <<>>, kind |-> "absent", data |-> <<>>]

\* entries.find(e => e.filename === name)
RECURSIVE FindEntry(_, _)
FindEntry(entries, name) ==
  IF entries = <<>> THEN NoEntry
  ELSE IF Head(entries).filename = name THEN Head(entries)
  ELSE FindEntry(Tail(entries), name)

\* !entry || !("getData" in entry)
NoData(entry) == entry.kind \in {"absent", "dir"}

\* What an operation hands back to its caller: a value or an error, for
\* every archive handle it opened the number of times it closed it, and the
\* requests it sent to the content server, in order.
Return(v, hs) ==
  [status |-> "ok", value |-> v, err |-> "", handles |-> hs, requests |-> <<>>]
Throw(e, hs) ==
  [status |-> "error", value |-> <<>>, err |-> e, handles |-> hs, requests |-> <<>>]

FetchError(arch) ==
  IF arch.fetch = "noepub" THEN "Book does not have an EPUB format" ELSE "Fetch failed"

\* this.fetch(url): one request, which throws when the response is not ok
Fetch(kind, ok) == [kind |-> kind, ok |-> ok]

\* a getEpubBuffer that downloads the first format when there is no EPUB
getEpubBufferOfAnyFormat(arch) ==
  [status |-> IF arch.fetch = "ok" THEN "ok" ELSE "error",
   err |-> IF arch.fetch = "ok" THEN "" ELSE FetchError(arch),
   requests |->
     IF arch.fetch = "nometa" THEN <<Fetch("metadata", FALSE)>>
     ELSE <<Fetch("metadata", TRUE), Fetch("download", arch.fetch = "ok")>>]

\* getEpubBuffer: getBookFormats (one metadata request), the EPUB format
\* looked up in the list, downloadBook (one download request)
getEpubBuffer(arch) ==
  [status |-> IF arch.fetch = "ok" THEN "ok" ELSE "error",
   err |-> IF arch.fetch = "ok" THEN "" ELSE FetchError(arch),
   requests |->
     IF arch.fetch = "nometa" THEN <<Fetch("metadata", FALSE)>>
     ELSE IF arch.fetch = "noepub" THEN <<Fetch("metadata", TRUE)>>
     ELSE <<Fetch("metadata", TRUE), Fetch("download", arch.fetch = "ok")>>]

\* the outcome r of an operation that began with the download b
Fetching(b, r) == [r EXCEPT !.requests = b.requests]

getEpubContents(arch) ==
  LET b == getEpubBuffer(arch) IN
  Fetching(b,
    IF b.status = "error" THEN Throw(b.err, <<>>)
    ELSE IF ~arch.zipOk THEN Throw("ArchiveError", <<0>>)
    ELSE Return([i \in 1..Len(arch.entries) |-> arch.entries[i].filename], <<1>>))

getEpubFile(arch, filePath) ==
  LET b == getEpubBuffer(arch) IN
  Fetching(b,
    IF b.status = "error" THEN Throw(b.err, <<>>)
    ELSE IF ~arch.zipOk THEN Throw("ArchiveError", <<0>>)
    ELSE LET file == FindEntry(arch.entries, filePath) IN
         IF NoData(file) THEN Throw("File not found or is a directory in EPUB", <<1>>)
         ELSE IF file.kind = "corrupt" THEN Throw("EntryError", <<0>>)
         ELSE Return(file.data, <<1>>))

getChapterContent(arch, chapterPath) == getEpubFile(arch, chapterPath)

\* markdown.replace(/&name;/g, char): every "&" that the name follows is
\* replaced, with the name, by the character
ReplaceEntity(s, name, char) ==
  LET starts == {i \in 1..(Len(s) - 1) : s[i] = "&" /\ s[i + 1] = name}
      kept == SelectSeq([i \in 1..Len(s) |-> i], LAMBDA i : (i - 1) \notin starts)
  IN  [j \in 1..Len(kept) |-> IF kept[j] \in starts THEN char ELSE s[kept[j]]]

\* .replace(/&nbsp;/g, " ").replace(/&amp;/g, "&").replace(/&lt;/g, "<")
\* .replace(/&gt;/g, ">").replace(/&quot;/g, '"'), one after the other
DecodeEntities(s) ==
  Bound(ReplaceEntity(s, "nbsp;", " "), LAMBDA a :
    Bound(ReplaceEntity(a, "amp;", "&"), LAMBDA b :
      Bound(ReplaceEntity(b, "lt;", "<"), LAMBDA c :
        Bound(ReplaceEntity(c, "gt;", ">"), LAMBDA d :
          ReplaceEntity(d, "quot;", "\"")))))

\* On markup without "<" the element and tag replacements leave the text as
\* it is; what remains is the empty-input test, the entities and trim().
htmlToMarkdown(html) ==
  IF html = <<>> THEN <<>> ELSE Bound(html, LAMBDA v : Trim(DecodeEntities(v)))

getChapterContentMarkdown(arch, chapterPath) ==
  LET r == getChapterContent(arch, chapterPath) IN
  IF r.status = "error" THEN r ELSE [r EXCEPT !.value = htmlToMarkdown(r.value)]

\* ------------------------------------------------- the package document
\* The XML documents are kept as what the regular expressions of the source
\* extract from them:
\*   container.xml   [fullPath]: the full-path attribute, <<>> when no
\*                   full-path="..." is present
\*   package (OPF)   [items, spine]: the <item> elements in document order,
\*                   each [id, href, mediaType, nav] (href <<>>: the element
\*                   has no href, so the item pattern does not match it), and
\*                   the idref of every <itemref> in document order
\*   NCX             the navPoints in document order, each [label, src]
\*   nav document    the <a> elements in document order, each [label, src]
ContainerPath == <<"META-INF", "/", "container.xml">>

Contains(s, c) == \E i \in 1..Len(s) : s[i] = c

LastIndexOf(s, c) ==
  CHOOSE i \in 1..Len(s) : s[i] = c /\ \A j \in (i + 1)..Len(s) : s[j] # c

\* opfPath.includes("/") ? opfPath.substring(0, opfPath.lastIndexOf("/") + 1) : ""
OpfDir(opfPath) ==
  IF Contains(opfPath, "/") THEN SubSeq(opfPath, 1, LastIndexOf(opfPath, "/")) ELSE <<>>

\* decodeURIComponent, and the raw href when it throws on a malformed escape
DecodeHref(href) ==
  IF Contains(href, "%") THEN href
  ELSE [i \in 1..Len(href) |-> IF href[i] = "%61" THEN "a" ELSE href[i]]

ItemMatches(item) == item.id # <<>> /\ item.href # <<>>

\* manifest[id] = _normalizePath(opfDir + decodedHref), a later item with the
\* same id overwriting an earlier one
Manifest(items, opfDir) ==
  LET matched == {i \in 1..Len(items) : ItemMatches(items[i])}
      ids == {items[i].id : i \in matched}
      last(id) == CHOOSE i \in matched :
                    items[i].id = id /\ \A j \in matched : items[j].id = id => j <= i
  IN  [id \in ids |-> _normalizePath(opfDir \o DecodeHref(items[last(id)].href))]

\* manifest is a plain object ({}): a name that no item declared is looked
\* up on Object.prototype, where "constructor" is the function Object.
InheritedNames == {<<"constructor">>}
InheritedValue == <<"function Object() { [native code] }">>
Undefined == <<>>

\* manifest[idref]
Lookup(manifest, idref) ==
  IF idref \in DOMAIN manifest THEN manifest[idref]
  ELSE IF idref \in InheritedNames THEN InheritedValue
  ELSE Undefined

\* if (value): undefined and the empty string are falsy
Truthy(value) == value # <<>>

\* if (manifest[idref]) spine.push(manifest[idref])
RECURSIVE Spine(_, _)
Spine(idrefs, manifest) ==
  IF idrefs = <<>> THEN <<>>
  ELSE LET idref == Head(idrefs)
           rest == Spine(Tail(idrefs), manifest)
       IN  IF Truthy(Lookup(manifest, idref))
           THEN <<Lookup(manifest, idref)>> \o rest
           ELSE rest

\* ------------------------------------------------- the navigation resolver
\* a reference that keeps its fragment
KeepFragment(href) == href

\* if (href.includes("#")) href = href.split("#")[0]
StripFragment(href) ==
  IF Contains(href, "#")
  THEN SubSeq(href, 1, SetMin({i \in 1..Len(href) : href[i] = "#"}) - 1)
  ELSE href

TocHasPath(toc, path) == \E i \in 1..Len(toc) : toc[i].path = path

\* the loop over the navPoints (or links): fragment stripped, path
\* normalised, label trimmed, first entry of a path kept
RECURSIVE TocOfPoints(_, _, _)
TocOfPoints(points, opfDir, toc) ==
  IF points = <<>> THEN toc
  ELSE LET p == Head(points)
           fullPath == _normalizePath(opfDir \o StripFragment(p.src))
       IN  TocOfPoints(Tail(points), opfDir,
             IF TocHasPath(toc, fullPath) THEN toc
             ELSE Append(toc, [title |-> Trim(p.label), path |-> fullPath]))

\* new RegExp(`id="${ncxId}"...`) throws a SyntaxError on an id with an
\* unmatched group opener
RegExpThrows(id) == Contains(id, "(")

FirstItem(items, P(_)) ==
  LET S == {i \in 1..Len(items) : P(items[i])} IN
  IF S = {} THEN 0 ELSE SetMin(S)

\* opfXml.match(/id="..."[^>]+media-type="application\/x-dtbncx\+xml"/i)
IsNcxItem(item) == item.mediaType = "ncx" /\ item.id # <<>>
\* opfXml.match(/properties="[^"]*nav[^"]*"[^>]+href="([^"]+)"/i)
IsNavItem(item) == item.nav /\ item.href # <<>>

\* What a tier hands back: [status, toc, reads]; status "error" when the
\* RegExp constructor or getData() throws; reads are the names of the
\* entries whose getData() was called, in order.
TocResult(status, toc, reads) == [status |-> status, toc |-> toc, reads |-> reads]

\* The legacy tier.
LegacyToc(entries, opf, opfDir) ==
  LET n == FirstItem(opf.items, IsNcxItem) IN
  IF n = 0 THEN TocResult("ok", <<>>, <<>>)
  ELSE LET ncxId == opf.items[n].id IN
       IF RegExpThrows(ncxId) THEN TocResult("error", <<>>, <<>>)
       ELSE LET hasId(item) == item.id = ncxId /\ item.href # <<>>
                h == FirstItem(opf.items, hasId)
            IN  IF h = 0 THEN TocResult("ok", <<>>, <<>>)
                ELSE LET ncxPath == opfDir \o opf.items[h].href
                         ncxEntry == FindEntry(entries, ncxPath)
                     IN  IF NoData(ncxEntry) THEN TocResult("ok", <<>>, <<>>)
                         ELSE IF ncxEntry.kind = "corrupt"
                         THEN TocResult("error", <<>>, <<ncxPath>>)
                         ELSE TocResult("ok", TocOfPoints(ncxEntry.data, opfDir, <<>>),
                                        <<ncxPath>>)

\* The modern tier, entered with an empty table of contents.
ModernToc(entries, opf, opfDir) ==
  LET n == FirstItem(opf.items, IsNavItem) IN
  IF n = 0 THEN TocResult("ok", <<>>, <<>>)
  ELSE LET navPath == _normalizePath(opfDir \o opf.items[n].href)
           navEntry == FindEntry(entries, navPath)
       IN  IF NoData(navEntry) THEN TocResult("ok", <<>>, <<>>)
           ELSE IF navEntry.kind = "corrupt" THEN TocResult("error", <<>>, <<navPath>>)
           ELSE TocResult("ok", TocOfPoints(navEntry.data, opfDir, <<>>), <<navPath>>)

\* a resolver that asks the modern tier first
getTOCFromEntriesModernFirst(entries, opf, opfDir) ==
  LET modern == ModernToc(entries, opf, opfDir) IN
  IF modern.status = "error" \/ Len(modern.toc) > 0 THEN modern
  ELSE LET legacy == LegacyToc(entries, opf, opfDir) IN
       [legacy EXCEPT !.reads = modern.reads \o @]

\* if (ncxMatch) { legacy tier }  if (toc.length === 0) { modern tier }
getTOCFromEntries(entries, opf, opfDir) ==
  LET legacy == LegacyToc(entries, opf, opfDir) IN
  IF legacy.status = "error" \/ Len(legacy.toc) > 0 THEN legacy
  ELSE LET modern == ModernToc(entries, opf, opfDir) IN
       [modern EXCEPT !.reads = legacy.reads \o @]

\* ------------------------------------------------- the chapter catalog
\* a catalog entry whose fallback title is the whole path
ChapterTitledByPath(toc, path) ==
  LET S == {i \in 1..Len(toc) : toc[i].path = path} IN
  [title |-> IF S # {} THEN toc[SetMin(S)].title ELSE path, path |-> path]

\* a catalog that keeps only the first occurrence of a path
RECURSIVE ChaptersDeduplicated(_, _)
ChaptersDeduplicated(spine, toc) ==
  IF spine = <<>> THEN <<>>
  ELSE LET init == SubSeq(spine, 1, Len(spine) - 1)
           path == spine[Len(spine)]
           rest == ChaptersDeduplicated(init, toc)
       IN  IF \E i \in 1..Len(init) : init[i] = path THEN rest
           ELSE Append(rest, ChapterTitledByPath(toc, path))

\* toc.find(t => t.path === path)
TocFind(toc, path) ==
  LET S == {i \in 1..Len(toc) : toc[i].path = path} IN
  IF S = {} THEN 0 ELSE SetMin(S)

\* path.split("/").pop()
LastSegment(path) == LET parts == Split(path) IN parts[Len(parts)]

Chapter(toc, path) ==
  LET t == TocFind(toc, path) IN
  [title |-> IF t # 0 THEN toc[t].title ELSE LastSegment(path), path |-> path]

Chapters(spine, toc) == [i \in 1..Len(spine) |-> Chapter(toc, spine[i])]

\* path.split is not a function: the map callback throws a TypeError on a
\* spine element that is no string (no entry of the table of contents has
\* such a path, so the fallback title is computed)
ChaptersThrow(spine) == \E i \in 1..Len(spine) : spine[i] = InheritedValue

getChapters(arch) ==
  LET b == getEpubBuffer(arch) IN
  Fetching(b,
  IF b.status = "error" THEN Throw(b.err, <<>>)
  ELSE IF ~arch.zipOk THEN Throw("ArchiveError", <<0>>)
  ELSE LET containerEntry == FindEntry(arch.entries, ContainerPath) IN
  IF NoData(containerEntry)
  THEN Throw("EPUB missing META-INF/container.xml or it is a directory", <<1>>)
  ELSE IF containerEntry.kind = "corrupt" THEN Throw("EntryError", <<0>>)
  ELSE IF containerEntry.data.fullPath = <<>>
  THEN Throw("Could not find root file in container.xml", <<1>>)
  ELSE LET opfPath == containerEntry.data.fullPath
           opfDir == OpfDir(opfPath)
           opfEntry == FindEntry(arch.entries, opfPath)
       IN
  IF NoData(opfEntry) THEN Throw("Could not find OPF file or it is a directory", <<1>>)
  ELSE IF opfEntry.kind = "corrupt" THEN Throw("EntryError", <<0>>)
  ELSE LET opf == opfEntry.data
           manifest == Manifest(opf.items, opfDir)
           spine == Spine(opf.spine, manifest)
           toc == getTOCFromEntries(arch.entries, opf, opfDir)
       IN
  IF toc.status = "error" THEN Throw("TocError", <<0>>)
  ELSE IF ChaptersThrow(spine) THEN Throw("TypeError", <<0>>)
  ELSE Return(Chapters(spine, toc.toc), <<1>>))

\* renderChapterPage opens a ZipReader over the archive and has no call of
\* reader.close(): whether the browser steps succeed or throw, the handle is
\* closed zero times.
renderChapterPage(arch, browserOk) ==
  LET b == getEpubBuffer(arch) IN
  Fetching(b,
    IF b.status = "error" THEN Throw(b.err, <<>>)
    ELSE IF ~arch.zipOk THEN Throw("ArchiveError", <<0>>)
    ELSE IF ~browserOk THEN Throw("BrowserError", <<0>>)
    ELSE Return(<<"screenshot">>, <<0>>))

\* ------------------------------------------------------ the chunked reader
\* `\n\n... (truncated, use offset ${offset + length} to read more)`
Marker(next) == <<"\n\n... (truncated, use offset ", ToString(next), " to read more)">>

\* const { offset = 0, length = 30000 } = args
ArgOffset(args) == IF "offset" \in DOMAIN args THEN args.offset ELSE DefaultOffset
ArgLength(args) == IF "length" \in DOMAIN args THEN args.length ELSE DefaultLength

\* the marker also when the window ends exactly at the end of the text
TruncatedInclusive(text, offset, length) == Len(text) >= offset + length

Truncated(text, offset, length) == Len(text) > offset + length

ReadChunk(text, offset, length) ==
  LET content == Substring(text, offset, offset + length) IN
  IF Truncated(text, offset, length) THEN content \o Marker(offset + length) ELSE content

\* What a client makes of the text of a reply: it ends with a continuation
\* marker when its last characters read as one, for some offset.
HasMarker(body) ==
  /\ Len(body) >= 3
  /\ \E n \in 0..(Len(body) + MaxCalls) : SubSeq(body, Len(body) - 2, Len(body)) = Marker(n)
MarkedOffset(body) ==
  CHOOSE n \in 0..(Len(body) + MaxCalls) : SubSeq(body, Len(body) - 2, Len(body)) = Marker(n)
\* the reply with the marker removed
Contents(body) == IF HasMarker(body) THEN SubSeq(body, 1, Len(body) - 3) ELSE body

\* ------------------------------------------------------ the tool adapter
\* What the CallTool handler returns: the tool result sent as the response.
TextResult(text) == [isError |-> FALSE, kind |-> "text", body |-> text]
JsonResult(v) == [isError |-> FALSE, kind |-> "json", body |-> v]
ImageResult(v) == [isError |-> FALSE, kind |-> "image", body |-> v]
\* catch (error) { return { content: [{ text: `Error: ${error.message}` }], isError: true } }
ErrorResult(message) == [isError |-> TRUE, kind |-> "text", body |-> <<"Error: ", message>>]
NoResult == [isError |-> FALSE, kind |-> "none", body |-> <<>>]

\* A handler's completion as the request loop sees it.
Returned(result) == [status |-> "ok", result |-> result, mcp |-> FALSE, code |-> 0]
Threw(isMcp, code) == [status |-> "throw", result |-> NoResult, mcp |-> isMcp, code |-> code]

\* a handler that lets the error of the core operation escape
CatchToolErrorRethrown(r, result) ==
  IF r.status = "error" THEN Threw(FALSE, 0) ELSE Returned(result)

\* The try/catch of the CallTool handler around a core operation r.
CatchToolError(r, result) ==
  IF r.status = "error" THEN Returned(ErrorResult(r.err)) ELSE Returned(result)

\* ------------------------------------------------------ the request loop
sendResponse(id, result) ==
  [id |-> id, kind |-> "result", code |-> 0, isError |-> result.isError]
sendError(id, code) == [id |-> id, kind |-> "error", code |-> code, isError |-> FALSE]

\* a loop that reports every exception as an internal error
ReplyToInternalError(id, h) ==
  IF h.status = "ok" THEN sendResponse(id, h.result) ELSE sendError(id, InternalError)

\* try { result = await handler(message); sendResponse } catch { sendError }
ReplyTo(id, h) ==
  IF h.status = "ok" THEN sendResponse(id, h.result)
  ELSE IF h.mcp THEN sendError(id, h.code)
  ELSE sendError(id, InternalError)

VARIABLES
  pc,       \* "loop": start() awaits the next line; "fetch", "scan":
            \* inside searchInBook; "replied": the line has been handled;
            \* "stopped": end of input, start() has returned
  nlines,   \* lines read so far
  sent,     \* the replies written to stdout, in order: [id, kind, code, isError]
  req,      \* the message of the line being handled (or handled last)
  env,      \* the archive the content server delivered for it
  outcome,  \* what the handler returned for it (NoResult: nothing returned)
  thrown,   \* the error a core operation raised during it ("": none)
  handles,  \* close count of every archive handle opened during it
  requests, \* the requests sent to the content server during it, in order
  search,   \* the locals of searchInBook
  reader    \* the client reading one chapter chunk by chunk: the book, the
            \* length it asks for, the calls made, the offset the last reply
            \* named (-1: none) and the contents received so far

vars == <<pc, nlines, sent, req, env, outcome, thrown, handles, requests, search, reader>>

NoArchive == [fetch |-> "none", zipOk |-> FALSE, entries |-> <<>>]
NoRequest == [kind |-> "none", id |-> -1, method |-> "", tool |-> "", args |-> <<>>]
NoSearch == [query |-> <<>>, chapters |-> <<>>, ci |-> 0, texts |-> <<>>,
             index |-> -1, results |-> <<>>, fetches |-> 0, scans |-> 0]
NoReader == [book |-> NoArchive, length |-> 0, calls |-> 0, next |-> 0, contents |-> <<>>]

Init ==
  /\ pc = "loop"
  /\ nlines = 0
  /\ sent = <<>>
  /\ req = NoRequest
  /\ env = NoArchive
  /\ outcome = NoResult
  /\ thrown = ""
  /\ handles = <<>>
  /\ requests = <<>>
  /\ search = NoSearch
  /\ reader = NoReader

\* the id of a request is the number of its line
NextId == nlines + 1

Request(id, method, tool, args) ==
  [kind |-> "request", id |-> id, method |-> method, tool |-> tool, args |-> args]

CanRead == pc = "loop" /\ nlines < MaxLines

\* a loop without the outer catch: the line ends start()
ReadSilentLineUncaught ==
  /\ CanRead
  /\ \E k \in {"blank", "invalid", "nomethod", "notification"} :
       /\ req' = [NoRequest EXCEPT !.kind = k]
       /\ pc' = IF k = "invalid" THEN "stopped" ELSE "replied"
  /\ nlines' = nlines + 1
  /\ outcome' = NoResult
  /\ thrown' = ""
  /\ env' = NoArchive
  /\ handles' = <<>>
  /\ requests' = <<>>
  /\ UNCHANGED <<sent, search, reader>>

\* A line that produces no reply: blank (continue), not JSON or JSON null
\* (JSON.parse or the property access throws into the outer catch), a JSON
\* object without method, or a notification (method, no id).
ReadSilentLine ==
  /\ CanRead
  /\ \E k \in {"blank", "invalid", "nomethod", "notification"} :
       req' = [NoRequest EXCEPT !.kind = k]
  /\ nlines' = nlines + 1
  /\ outcome' = NoResult
  /\ thrown' = ""
  /\ env' = NoArchive
  /\ handles' = <<>>
  /\ requests' = <<>>
  /\ pc' = "replied"
  /\ UNCHANGED <<sent, search, reader>>

\* A request handled within one loop iteration: h is the completion of its
\* handler, r the core operation behind it (if any).
Handled(request, arch, r, h) ==
  /\ nlines' = nlines + 1
  /\ req' = request
  /\ env' = arch
  /\ thrown' = r.err
  /\ handles' = r.handles
  /\ requests' = r.requests
  /\ outcome' = h.result
  /\ sent' = Append(sent, ReplyTo(request.id, h))
  /\ pc' = "replied"
  /\ UNCHANGED search

\* the same, for a request that is no step of a chunked read
Handle(request, arch, r, h) == Handled(request, arch, r, h) /\ UNCHANGED reader

NoCore == Return(<<>>, <<>>)

\* "initialize" is answered by the loop itself.
ReadInitialize ==
  /\ CanRead
  /\ Handle(Request(NextId, "initialize", "", <<>>), NoArchive, NoCore,
              Returned(JsonResult(<<"serverInfo">>)))

\* A method with no registered handler: sendError(id, -32601).
ReadUnknownMethod ==
  /\ CanRead
  /\ nlines' = nlines + 1
  /\ req' = Request(NextId, "ping", "", <<>>)
  /\ sent' = Append(sent, sendError(NextId, MethodNotFound))
  /\ outcome' = NoResult
  /\ thrown' = ""
  /\ env' = NoArchive
  /\ handles' = <<>>
  /\ requests' = <<>>
  /\ pc' = "replied"
  /\ UNCHANGED <<search, reader>>

\* tools/list and prompts/list return fixed lists.
ReadListRequest ==
  /\ CanRead
  /\ \E m \in {"tools/list", "prompts/list"} :
       Handle(Request(NextId, m, "", <<>>), NoArchive, NoCore,
              Returned(JsonResult(<<m>>)))

\* prompts/get: the known prompt, an unknown one (McpError InvalidParams),
\* or a message without params (TypeError).
ReadGetPrompt ==
  /\ CanRead
  /\ \E name \in {"analyze_book", "other", "noparams"} :
       Handle(Request(NextId, "prompts/get", name, <<>>), NoArchive, NoCore,
              CASE name = "analyze_book" -> Returned(JsonResult(<<"prompt">>))
                [] name = "other" -> Threw(TRUE, InvalidParams)
                [] OTHER -> Threw(FALSE, 0))

\* ------------------------------------------------------ the inputs
Kinds == {"absent", "dir", "corrupt", "file"}

Arch(entries) == [fetch |-> "ok", zipOk |-> TRUE, entries |-> entries]
FailedArchives ==
  {[fetch |-> f, zipOk |-> FALSE, entries |-> <<>>] : f \in {"nometa", "noepub", "fail"}}
    \cup {[fetch |-> "ok", zipOk |-> FALSE, entries |-> <<>>]}

\* the entry of that name and kind as a list of entries (none when absent)
EntrySeq(name, kind, data) ==
  IF kind = "absent" THEN <<>>
  ELSE <<[filename |-> name, kind |-> kind, data |-> IF kind = "file" THEN data ELSE <<>>]>>

\* archives in which the file of one path is absent, a directory, unreadable
\* or holds one of the given markups
FileArchives(path, htmls) ==
  FailedArchives
    \cup {Arch(EntrySeq(path, k, <<>>)) : k \in Kinds \ {"file"}}
    \cup {Arch(EntrySeq(path, "file", h)) : h \in htmls}

ChapterFile == <<"a">>
ImageFile == <<"cover", ".png">>
ReaderHtmls(maxLen) == SeqsUpTo({"a", "b", " "}, maxLen)

\* markups of entity names, ampersands and text
EntityHtmls(maxLen) ==
  SeqsUpTo({"&", "amp;", "lt;", "gt;", "quot;", "nbsp;", "a"}, maxLen)

\* the arguments of get_chapter_content_markdown: offset and length given or
\* left to their defaults, inside and outside [0, text.length]
ReaderArgs(maxLen) ==
  LET offsets == (0 - 1)..(maxLen + 1)
      lengths == (0 - 2)..(maxLen + 1)
  IN  {[path |-> ChapterFile]}
        \cup {[path |-> ChapterFile, offset |-> o] : o \in offsets}
        \cup {[path |-> ChapterFile, length |-> l] : l \in lengths}
        \cup {[path |-> ChapterFile, offset |-> o, length |-> l] :
                o \in offsets, l \in lengths}

ToolCall(id, tool, args) == Request(id, "tools/call", tool, args)

\* ------------------------------------------------------ tool calls
\* tools/call without params: the destructuring before the try throws a
\* TypeError, which the loop reports as an internal error.
CallWithoutParams ==
  /\ CanRead
  /\ Handle(Request(NextId, "tools/call", "", <<>>), NoArchive, NoCore, Threw(FALSE, 0))

\* default: throw new McpError(MethodNotFound, `Unknown tool: ${name}`),
\* inside the try.
CallUnknownTool ==
  /\ CanRead
  /\ \E tool \in {"render_chapter_page", "nope"} :
       LET r == Throw("Unknown tool", <<>>) IN
       Handle(ToolCall(NextId, tool, <<>>), NoArchive, r, CatchToolError(r, NoResult))

\* A known tool called without arguments: reading a property of undefined
\* throws a TypeError inside the try.
CallWithoutArguments ==
  /\ CanRead
  /\ \E tool \in {"list_chapters", "search_in_book", "get_chapter_content_markdown"} :
       LET r == Throw("TypeError", <<>>) IN
       Handle(ToolCall(NextId, tool, <<>>), NoArchive, r, CatchToolError(r, NoResult))

\* list_libraries, search_books, list_books, get_book_cover and
\* get_book_metadata only talk to the content server.
CallUpstreamTool ==
  /\ CanRead
  /\ \E ok \in BOOLEAN,
        tool \in {"list_libraries", "search_books", "list_books",
                  "get_book_cover", "get_book_metadata"} :
       LET r == [IF ok THEN Return(<<tool>>, <<>>) ELSE Throw("Fetch failed", <<>>)
                   EXCEPT !.requests = <<Fetch(tool, ok)>>] IN
       Handle(ToolCall(NextId, tool, [libraryId |-> "lib"]), NoArchive, r,
              CatchToolError(r, IF tool = "get_book_cover"
                                THEN ImageResult(r.value) ELSE JsonResult(r.value)))

CallListEpubFiles ==
  /\ CanRead
  /\ \E arch \in FileArchives(ChapterFile, {<<"a">>}) :
       LET r == getEpubContents(arch) IN
       Handle(ToolCall(NextId, "list_epub_files", [bookId |-> 1]), arch, r,
              CatchToolError(r, JsonResult(r.value)))

\* /\.(jpg|jpeg|png|gif|webp)$/i.test(path)
IsImage(path) == path # <<>> /\ path[Len(path)] \in {".jpg", ".png"}

\* get_chapter_content, and get_epub_file for a text or an image path
CallGetFile ==
  /\ CanRead
  /\ \E path \in {ChapterFile, ImageFile},
        tool \in {"get_chapter_content", "get_epub_file"} :
     \E arch \in FileArchives(path, {<<"a">>, <<" ", "b">>}) :
       LET r == getEpubFile(arch, path) IN
       Handle(ToolCall(NextId, tool, [path |-> path]), arch, r,
              CatchToolError(r, IF tool = "get_epub_file" /\ IsImage(path)
                                THEN ImageResult(r.value) ELSE TextResult(r.value)))

\* case "get_chapter_content_markdown", for the archives and arguments given
GetChapterContentMarkdownOf(archives, argsets) ==
  /\ CanRead
  /\ \E arch \in archives, args \in argsets :
       LET r == getChapterContentMarkdown(arch, args.path) IN
       Handle(ToolCall(NextId, "get_chapter_content_markdown", args), arch, r,
              CatchToolError(r,
                TextResult(ReadChunk(r.value, ArgOffset(args), ArgLength(args)))))

\* case "list_chapters", for the archives given
ListChaptersOf(archives) ==
  /\ CanRead
  /\ \E arch \in archives :
       LET r == getChapters(arch) IN
       Handle(ToolCall(NextId, "list_chapters", [bookId |-> 1]), arch, r,
              CatchToolError(r, JsonResult(r.value)))

\* ------------------------------------------------------ books
Item(id, href, mediaType, nav) ==
  [id |-> id, href |-> href, mediaType |-> mediaType, nav |-> nav]
Point(label, src) == [label |-> label, src |-> src]
Opf(items, spine) == [items |-> items, spine |-> spine]

TocDir == <<"OEBPS", "/">>
TocOpfPath == TocDir \o <<"content.opf">>
OpfPaths == {<<"content.opf">>, TocOpfPath}
NcxHref == <<"toc.ncx">>
NavHrefs == {<<"nav.xhtml">>, <<".", "/", "nav.xhtml">>}

\* an archive from its parts; the container entry comes last, so that every
\* lookup passes over the other entries
Book(containerKind, fullPath, opfKind, opf, others) ==
  Arch(others
         \o EntrySeq(IF fullPath = <<>> THEN <<"content.opf">> ELSE fullPath, opfKind, opf)
         \o EntrySeq(ContainerPath, containerKind, [fullPath |-> fullPath]))

Ch1 == Item(<<"ch1">>, <<"text", "/", "ch01.html">>, "xhtml", FALSE)
Ch2 == Item(<<"ch2">>, <<"b">>, "xhtml", FALSE)
Ch1Path == TocDir \o <<"text", "/", "ch01.html">>
Ch2Path == TocDir \o <<"b">>

\* the required documents present or not, around a one-chapter book
StructureBooks ==
  FailedArchives
    \cup {Book(ck, fp, ok, Opf(<<Ch1>>, <<<<"ch1">>>>), <<>>) :
            ck \in Kinds, fp \in OpfPaths \cup {<<>>}, ok \in Kinds}

\* manifests and spines of every shape, no navigation document
ContentIds == {<<"ch1">>, <<"ch2">>}
ContentItems ==
  {Item(<<"ch1">>, <<"a">>, "xhtml", FALSE),
   Item(<<"ch1">>, <<".", ".", "/", "text", "/", "b">>, "xhtml", FALSE),
   Item(<<"ch2">>, <<".">>, "xhtml", FALSE),
   Item(<<"ch2">>, <<"a">>, "xhtml", FALSE),
   Item(<<"ch2">>, <<>>, "xhtml", FALSE)}
IdRefs == ContentIds \cup {<<"zz">>}

ManifestBooks(maxItems, maxSpine) ==
  {Book("file", TocOpfPath, "file", Opf(items, spine), <<>>) :
     items \in SeqsUpTo(ContentItems, maxItems), spine \in SeqsUpTo(IdRefs, maxSpine)}

\* item references named like a property of Object.prototype, declared by an
\* item or not, and an item whose path is empty
PrototypeBooks ==
  {Book("file", fp, "file", Opf(items, spine), <<>>) :
     fp \in OpfPaths,
     items \in {<<Ch2>>, <<Ch2, Item(<<"constructor">>, <<"c">>, "xhtml", FALSE)>>,
                <<Item(<<"ch1">>, <<".">>, "xhtml", FALSE), Ch2>>},
     spine \in {<<<<"constructor">>>>, <<<<"ch2">>, <<"constructor">>>>,
                <<<<"ch1">>, <<"ch2">>>>}}

\* one-chapter books whose package document lies in one of several
\* directories and whose chapter href is any path of up to maxSegments
\* segments, or one of two longer ones
BaseOpfPaths ==
  {<<"content.opf">>, TocOpfPath, <<"/", "content.opf">>,
   <<".", ".", "/", "x", "/", "content.opf">>, <<"p", "/", "q", "/", ".", ".", "/", "content.opf">>}
Segments == {<<"a">>, <<"b">>, <<"c">>, <<".">>, <<".", ".">>, <<>>}
LongHrefs ==
  {<<"a", "/", "b", "/", ".", ".", "/", "c">>,
   <<".", ".", "/", ".", ".", "/", "a", "/", ".", "/", "/", "c">>}
NormalizeBooks(maxSegments) ==
  {Book("file", fp, "file", Opf(<<Item(<<"ch1">>, h, "xhtml", FALSE)>>, <<<<"ch1">>>>), <<>>) :
     fp \in BaseOpfPaths,
     h \in ({Join(segs) : segs \in SeqsUpTo(Segments, maxSegments)} \cup LongHrefs) \ {<<>>}}

\* percent-escaped hrefs, well-formed and malformed
EscapedBooks ==
  {Book("file", fp, "file",
        Opf(<<Item(<<"ch1">>, h, "xhtml", FALSE)>>, <<<<"ch1">>>>), <<>>) :
     fp \in OpfPaths, h \in {<<"%61">>, <<"%", "a">>, <<"t", "/", "%61", "#", "x">>}}

\* navigation documents of every shape, around a two-item manifest
Points ==
  {Point(<<"Chapter One">>, <<"text", "/", "ch01.html">>),
   Point(<<" ", "Two", " ">>, <<"text", "/", "ch01.html", "#", "s2">>),
   Point(<<"Chapter One">>, <<"b">>),
   Point(<<"B">>, <<".", "/", "b", "#">>)}
PointLists(maxPoints) == SeqsUpTo(Points, maxPoints)

NcxItem == <<Item(<<"ncx">>, NcxHref, "ncx", FALSE)>>
NcxItems ==
  {<<>>, NcxItem,
   <<Item(<<"ncx">>, <<>>, "ncx", FALSE)>>,
   <<Item(<<"n", "(", "cx">>, NcxHref, "ncx", FALSE)>>}
NavItems == {<<>>} \cup {<<Item(<<"nav">>, h, "xhtml", TRUE)>> : h \in NavHrefs}

TocSpines ==
  {<<>>, <<<<"ch1">>>>, <<<<"ch2">>, <<"ch1">>>>, <<<<"ch1">>, <<"ch2">>, <<"ch1">>>>}

TocBook(spine, ncxItem, ncxKind, ncxPoints, navItem, navKind, navPoints, files) ==
  Book("file", TocOpfPath, "file", Opf(<<Ch1, Ch2>> \o ncxItem \o navItem, spine),
       files
         \o EntrySeq(TocDir \o NcxHref, ncxKind, ncxPoints)
         \o EntrySeq(TocDir \o <<"nav.xhtml">>, navKind, navPoints))

OnePoint == <<Point(<<"Nav One">>, <<"text", "/", "ch01.html">>)>>

LegacyBooks(maxPoints) ==
  {TocBook(spine, ncxItem, ncxKind, IF ncxKind = "file" THEN pts ELSE <<>>,
           navItem, "file", OnePoint, <<>>) :
     spine \in TocSpines, ncxItem \in NcxItems, ncxKind \in Kinds, pts \in PointLists(maxPoints),
     navItem \in {<<>>, <<Item(<<"nav">>, <<"nav.xhtml">>, "xhtml", TRUE)>>}}

ModernBooks(maxPoints) ==
  {TocBook(spine, NcxItem, ncxKind, <<>>,
           navItem, navKind, IF navKind = "file" THEN pts ELSE <<>>, <<>>) :
     spine \in TocSpines, ncxKind \in {"absent", "file"}, navItem \in NavItems,
     navKind \in Kinds, pts \in PointLists(maxPoints)}

ChapterArchives(maxItems, maxSpine, maxPoints) ==
  StructureBooks \cup ManifestBooks(maxItems, maxSpine) \cup PrototypeBooks \cup EscapedBooks
    \cup LegacyBooks(maxPoints) \cup ModernBooks(maxPoints)

\* ------------------------------------------------------ searchInBook
Pad(n) == [i \in 1..n |-> "b"]
\* texts longer than the snippet window on both sides of their one match
LongHtmls ==
  {Pad(SnippetWindow + 1) \o <<"A">> \o Pad(SnippetWindow + 1),
   Pad(SnippetWindow - 1) \o <<"A">> \o Pad(SnippetWindow - 1)}
SearchHtmls(maxLen) ==
  SeqsUpTo({"a", "b"}, maxLen)
    \cup {<<"A">>, <<"a", "A", "a">>, <<"Idot", "a">>, <<"a", "Idot", "A">>, <<" ", "a", " ">>}
    \cup LongHtmls
Queries(maxLen) ==
  SeqsUpTo({"a"}, maxLen) \cup {<<"A">>, <<"A", "a">>, <<"Idot">>, <<"a", "b">>}

\* a book whose first chapter file is of the kind and markup given
SearchBook(spine, kind1, html1, html2, ncxItem) ==
  TocBook(spine, ncxItem, "file", OnePoint, <<>>, "absent", <<>>,
          EntrySeq(Ch1Path, kind1, html1) \o EntrySeq(Ch2Path, "file", html2))

SearchBooksOf(spines, htmls) ==
  FailedArchives
    \cup {Book("absent", TocOpfPath, "file", Opf(<<Ch1, Ch2>>, <<>>), <<>>)}
    \cup {SearchBook(<<<<"ch2">>, <<"ch1">>>>, k, <<>>, <<"a", "a">>, NcxItem) :
            k \in Kinds \ {"file"}}
    \cup {SearchBook(spine, "file", h1, <<"a", "a">>, NcxItem) :
            spine \in spines, h1 \in htmls}

SearchBooks(maxChapters, maxLen) ==
  SearchBooksOf(SeqsUpTo(ContentIds, maxChapters), SearchHtmls(maxLen))
\* the books that list no chapter twice, over chapters of one repeated character
ShortSearchBooks(maxChapters, maxLen) ==
  SearchBooksOf({spine \in SeqsUpTo(ContentIds, maxChapters) :
                   \A i, j \in 1..Len(spine) : spine[i] = spine[j] => i = j},
                SeqsUpTo({"a"}, maxLen))

\* a hit whose snippet is cut from the case-folded text
HitOfFoldedText(chapter, markdownContent, query, index) ==
  LET start == Max2(0, index - SnippetWindow)
      end == Min2(Len(markdownContent), index + Len(query) + SnippetWindow)
  IN  [chapterTitle |-> chapter.title, chapterPath |-> chapter.path,
       markdownOffset |-> index,
       snippet |-> Substring(ToLowerCase(markdownContent), start, end)]

\* a scan that resumes behind the whole match
NextMatchPastMatch(markdownContent, query, index) ==
  IndexOf(ToLowerCase(markdownContent), ToLowerCase(query),
          IF index = -1 THEN 0 ELSE index + Max2(1, Len(query)))

\* a cap that is never noticed
CapNeverReached(results) == FALSE

\* a cap that is noticed one hit late
CapReachedLate(results) == Len(results) > MaxHits

\* results.push({ chapterTitle, chapterPath, markdownOffset, snippet })
Hit(chapter, markdownContent, query, index) ==
  LET start == Max2(0, index - SnippetWindow)
      end == Min2(Len(markdownContent), index + Len(query) + SnippetWindow)
  IN  [chapterTitle |-> chapter.title, chapterPath |-> chapter.path,
       markdownOffset |-> index, snippet |-> Substring(markdownContent, start, end)]

\* lowerMarkdown.indexOf(lowerQuery, index + 1)
NextMatch(markdownContent, query, index) ==
  IndexOf(ToLowerCase(markdownContent), ToLowerCase(query), index + 1)

\* results.length >= 50
CapReached(results) == Len(results) >= MaxHits

\* the tool call ends: the adapter returns the results, or the failure
SearchEnd(id, r, results) ==
  LET h == CatchToolError(r, JsonResult(results)) IN
  /\ thrown' = r.err
  /\ outcome' = h.result
  /\ sent' = Append(sent, ReplyTo(id, h))
  /\ pc' = "replied"

\* search_in_book arrives: searchInBook calls getChapters; an empty chapter
\* list returns at once.
SearchStartOf(archives, queries) ==
  /\ CanRead
  /\ \E arch \in archives, query \in queries :
       LET r == getChapters(arch) IN
       /\ nlines' = nlines + 1
       /\ req' = ToolCall(NextId, "search_in_book", [query |-> query])
       /\ env' = arch
       /\ handles' = r.handles
       /\ requests' = r.requests
       /\ search' = [NoSearch EXCEPT !.query = query, !.chapters = r.value]
       /\ IF r.status = "error" \/ r.value = <<>>
          THEN SearchEnd(NextId, r, <<>>)
          ELSE /\ pc' = "fetch"
               /\ UNCHANGED <<sent, outcome, thrown>>
  /\ UNCHANGED reader

\* for (const chapter of chapters): getChapterContent downloads the book
\* again (the download may fail) and reads the chapter; htmlToMarkdown
\* converts it.
SearchFetch ==
  /\ pc = "fetch"
  /\ search.ci < Len(search.chapters)
  /\ LET chapter == search.chapters[search.ci + 1] IN
     \E arch \in {env, [env EXCEPT !.fetch = "fail"], [env EXCEPT !.fetch = "nometa"]} :
       LET r == getChapterContent(arch, chapter.path) IN
       /\ handles' = handles \o r.handles
       /\ requests' = requests \o r.requests
       /\ IF r.status = "error"
          THEN /\ search' = [search EXCEPT !.fetches = @ + 1]
               /\ SearchEnd(req.id, r, <<>>)
          ELSE /\ search' = [search EXCEPT !.fetches = @ + 1, !.ci = @ + 1, !.index = -1,
                                           !.texts = Append(@, htmlToMarkdown(r.value))]
               /\ pc' = "scan"
               /\ UNCHANGED <<sent, outcome, thrown>>
  /\ UNCHANGED <<nlines, req, env, reader>>

\* One evaluation of the while condition and, on a match, of the loop body.
\* (The count of evaluations is capped one beyond what a search of that many
\* chapters can need, which keeps the state space finite.)
SearchScan ==
  /\ pc = "scan"
  /\ search.scans <= MaxHits + Len(search.chapters)
  /\ LET chapter == search.chapters[search.ci]
         markdownContent == search.texts[search.ci]
         index == NextMatch(markdownContent, search.query, search.index)
         results == IF index # -1
                    THEN Append(search.results, Hit(chapter, markdownContent, search.query, index))
                    ELSE search.results
     IN  /\ search' = [search EXCEPT !.scans = @ + 1, !.results = results,
                                     !.index = IF index # -1 THEN index ELSE @]
         /\ IF index # -1 /\ ~CapReached(results)
            THEN /\ pc' = "scan"
                 /\ UNCHANGED <<sent, outcome, thrown>>
            ELSE IF ~CapReached(results) /\ search.ci < Len(search.chapters)
            THEN /\ pc' = "fetch"
                 /\ UNCHANGED <<sent, outcome, thrown>>
            ELSE SearchEnd(req.id, Return(results, <<>>), results)
  /\ UNCHANGED <<nlines, req, env, handles, requests, reader>>

\* ------------------------------------------------------ the loop goes on
\* The iteration ends; its locals are gone when the next line is awaited.
NextLine ==
  /\ pc = "replied"
  /\ pc' = "loop"
  /\ req' = NoRequest
  /\ env' = NoArchive
  /\ outcome' = NoResult
  /\ thrown' = ""
  /\ handles' = <<>>
  /\ requests' = <<>>
  /\ search' = NoSearch
  /\ UNCHANGED <<nlines, sent, reader>>

\* stdin is closed: the for await loop ends and start() returns.
EndOfInput ==
  /\ pc = "loop"
  /\ pc' = "stopped"
  /\ UNCHANGED <<nlines, sent, req, env, outcome, thrown, handles, requests, search, reader>>

\* ------------------------------------------------------ a session
\* The server over a small library: a few books, one chapter text, two
\* queries; up to MaxLines lines of input.
GoodBook == SearchBook(<<<<"ch1">>, <<"ch2">>>>, "file", <<"a", "A", "a">>, <<"a", "a">>, NcxItem)
SessionBooks ==
  {GoodBook,
   [GoodBook EXCEPT !.fetch = "noepub"],
   [GoodBook EXCEPT !.fetch = "fail"],
   [GoodBook EXCEPT !.zipOk = FALSE],
   SearchBook(<<<<"ch1">>>>, "corrupt", <<>>, <<>>, NcxItem),
   SearchBook(<<<<"ch1">>>>, "file", <<>>, <<>>, <<Item(<<"n", "(", "cx">>, NcxHref, "ncx", FALSE)>>),
   Book("dir", TocOpfPath, "file", Opf(<<Ch1>>, <<>>), <<>>),
   Book("corrupt", TocOpfPath, "file", Opf(<<Ch1>>, <<>>), <<>>),
   Book("file", TocOpfPath, "file", Opf(<<>>, <<>>), <<>>)}
SessionFiles == FileArchives(ChapterFile, {<<"a", "b", " ">>})
SessionArgs ==
  {[path |-> ChapterFile], [path |-> ChapterFile, offset |-> 1, length |-> 1]}
SessionQueries == {<<>>, <<"A", "a">>}

CallListChapters == ListChaptersOf(SessionBooks)
CallGetChapterContentMarkdown == GetChapterContentMarkdownOf(SessionFiles, SessionArgs)
SearchStart == SearchStartOf(SessionBooks, SessionQueries)

Next ==
  \/ ReadSilentLine
  \/ ReadInitialize
  \/ ReadUnknownMethod
  \/ ReadListRequest
  \/ ReadGetPrompt
  \/ CallWithoutParams
  \/ CallUnknownTool
  \/ CallWithoutArguments
  \/ CallUpstreamTool
  \/ CallListEpubFiles
  \/ CallGetFile
  \/ CallGetChapterContentMarkdown
  \/ CallListChapters
  \/ SearchStart
  \/ SearchFetch
  \/ SearchScan
  \/ NextLine
  \/ EndOfInput

Spec == Init /\ [][Next]_vars

\* ------------------------------------------------------ one request
\* One list_chapters call over every enumerated book.
ListChapters == ListChaptersOf(ChapterArchives(MaxItems, MaxSpine, MaxNavPoints))
ChaptersSpec == Init /\ [][ListChapters]_vars

\* One list_chapters call over every enumerated package directory and href.
NormalizePaths == ListChaptersOf(NormalizeBooks(MaxSegments))
NormalizeSpec == Init /\ [][NormalizePaths]_vars

\* One get_chapter_content_markdown call over every enumerated chapter text,
\* offset and length.
ReadChapter ==
  GetChapterContentMarkdownOf(FileArchives(ChapterFile, ReaderHtmls(MaxHtmlLen)),
                              ReaderArgs(MaxHtmlLen))
ReaderSpec == Init /\ [][ReadChapter]_vars

\* One get_chapter_content_markdown call, with the default window, over
\* every enumerated markup with entities.
ConvertEntities ==
  GetChapterContentMarkdownOf(FileArchives(ChapterFile, EntityHtmls(MaxEntityLen)),
                              {[path |-> ChapterFile]})
EntitySpec == Init /\ [][ConvertEntities]_vars

\* A chapter read in chunks: the client calls get_chapter_content_markdown
\* with offset 0 and a length of its choice, then, while the reply ends with
\* a marker, with the offset the marker names and the same length.
ReadChunkAt(arch, offset, length, calls, contents) ==
  LET args == [path |-> ChapterFile, offset |-> offset, length |-> length]
      r == getChapterContentMarkdown(arch, args.path)
      h == CatchToolError(r, TextResult(ReadChunk(r.value, offset, length)))
      more == ~h.result.isError /\ HasMarker(h.result.body)
  IN  /\ Handled(ToolCall(NextId, "get_chapter_content_markdown", args), arch, r, h)
      /\ reader' = [book |-> arch, length |-> length, calls |-> calls + 1,
                    next |-> IF more THEN MarkedOffset(h.result.body) ELSE -1,
                    contents |-> IF h.result.isError THEN contents
                                 ELSE contents \o Contents(h.result.body)]

\* chapter texts that hold the text of a marker, at the end and inside
MarkerHtmls == {<<"a">> \o Marker(0), <<"a">> \o Marker(0) \o <<"b">>}
ChunkHtmls(maxLen) == SeqsUpTo({"a", "b"}, maxLen) \cup MarkerHtmls

ReadFirstChunkOf(htmls, lengths) ==
  /\ pc = "loop"
  /\ reader.calls = 0
  /\ \E html \in htmls, length \in lengths :
       ReadChunkAt(Arch(EntrySeq(ChapterFile, "file", html)), 0, length, 0, <<>>)

ReadFirstChunk == ReadFirstChunkOf(ChunkHtmls(MaxHtmlLen), 1..(MaxHtmlLen + 1))

\* (The count of calls is capped beyond what a text of these lengths needs,
\* which keeps the state space finite.)
ReadNextChunk ==
  /\ pc = "loop"
  /\ reader.calls >= 1
  /\ reader.calls < MaxCalls
  /\ reader.next # -1
  /\ ReadChunkAt(reader.book, reader.next, reader.length, reader.calls, reader.contents)

ChunkNext == ReadFirstChunk \/ ReadNextChunk \/ NextLine
ChunkSpec == Init /\ [][ChunkNext]_vars

\* One search_in_book call over every enumerated book and query.
SearchInBook ==
  SearchStartOf(SearchBooks(MaxChapters, MaxTextLen), Queries(MaxQueryLen))
SearchNext == SearchInBook \/ SearchFetch \/ SearchScan
SearchSpec == Init /\ [][SearchNext]_vars

\* The same under the scheduling of the runtime: a pending await of
\* searchInBook is resumed (the content server answers or fails), and the
\* synchronous scan loop runs on.
SearchShortBook ==
  SearchStartOf(ShortSearchBooks(MaxChapters, MaxTextLen), SeqsUpTo({"a"}, MaxQueryLen))
SearchLiveNext == SearchShortBook \/ SearchFetch \/ SearchScan
SearchLiveSpec ==
  Init /\ [][SearchLiveNext]_vars /\ WF_vars(SearchFetch) /\ WF_vars(SearchScan)

\* ====================================================== the claims
Replied(tool) == pc = "replied" /\ req.method = "tools/call" /\ req.tool = tool
Succeeded(tool) == Replied(tool) /\ ~outcome.isError

\* the package document of the archive of the current request
EnvContainer == FindEntry(env.entries, ContainerPath)
EnvOpfPath == EnvContainer.data.fullPath
EnvOpfEntry == FindEntry(env.entries, EnvOpfPath)
EnvOpf == EnvOpfEntry.data
EnvOpfDir == OpfDir(EnvOpfPath)
EnvToc == getTOCFromEntries(env.entries, EnvOpf, EnvOpfDir).toc

\* C1: when an operation has returned or thrown to its caller, every archive
\* handle it opened has been closed exactly once.
C1_HandleClosedOnce ==
  pc = "replied" => \A i \in 1..Len(handles) : handles[i] = 1

\* C2: list_chapters returns one chapter per spine item reference that
\* resolves through the manifest, in spine order and with recurring paths
\* kept; the table of contents has no part in the sequence of paths.
C2_SpineOrder ==
  Succeeded("list_chapters") =>
    LET manifest == Manifest(EnvOpf.items, EnvOpfDir)
        Resolved(idref) == Truthy(Lookup(manifest, idref))
        refs == SelectSeq(EnvOpf.spine, Resolved)
    IN  /\ Len(outcome.body) = Len(refs)
        /\ \A i \in 1..Len(refs) : outcome.body[i].path = manifest[refs[i]]

\* three chapters, the first path recurring as the third, under a table of
\* contents that lists the two paths in the opposite order
C2_Witness ==
  /\ Succeeded("list_chapters")
  /\ Len(outcome.body) = 3
  /\ outcome.body[1].path = outcome.body[3].path
  /\ outcome.body[1].path # outcome.body[2].path
  /\ Len(EnvToc) = 2
  /\ EnvToc[1].path = outcome.body[2].path
  /\ EnvToc[2].path = outcome.body[1].path

ScenarioBook == Book("file", TocOpfPath, "file", Opf(<<Ch1>>, <<<<"ch1">>>>), <<>>)

\* C3: a chapter's title is the title of the table-of-contents entry with
\* the chapter's path when there is one, and the part of the path after its
\* last "/" otherwise; the book of the scenario yields ch01.html at
\* OEBPS/text/ch01.html.
C3_Titles ==
  Succeeded("list_chapters") =>
    /\ \A i \in 1..Len(outcome.body) :
         LET c == outcome.body[i]
             entries == {t \in 1..Len(EnvToc) : EnvToc[t].path = c.path}
             slashes == {k \in 1..Len(c.path) : c.path[k] = "/"}
             cut == IF slashes = {} THEN 0 ELSE CHOOSE k \in slashes : \A j \in slashes : j <= k
         IN  IF entries # {}
             THEN \A t \in entries : c.title = EnvToc[t].title
             ELSE c.title = SubSeq(c.path, cut + 1, Len(c.path))
    /\ env = ScenarioBook =>
         outcome.body = <<[title |-> <<"ch01.html">>,
                           path |-> <<"OEBPS", "/", "text", "/", "ch01.html">>]>>

\* two chapters: the first without an entry in the table of contents, titled
\* by its file name, the second titled by its entry
C3_Witness ==
  /\ Succeeded("list_chapters")
  /\ Len(outcome.body) = 2
  /\ Len(EnvToc) = 1
  /\ outcome.body[1].path = Ch2Path
  /\ outcome.body[1].title = <<"b">>
  /\ outcome.body[2].path = EnvToc[1].path
  /\ outcome.body[2].title = <<"Chapter One">>

\* C4: searchInBook never holds more than 50 hits, returns the hits it
\* holds, and once it holds 50 it neither scans another position nor fetches
\* another chapter.
C4_HitCap ==
  /\ [](Len(search.results) <= MaxHits)
  /\ [](Succeeded("search_in_book") => outcome.body = search.results)
  /\ [][Len(search.results) >= MaxHits =>
          /\ search'.scans = search.scans
          /\ search'.fetches = search.fetches
          /\ search'.results = search.results]_vars

\* the 50th hit ends the call in the first of two chapters, with positions
\* of that chapter still unscanned
C4_Witness ==
  /\ Succeeded("search_in_book")
  /\ Len(outcome.body) = MaxHits
  /\ Len(search.chapters) = 2
  /\ search.ci = 1
  /\ search.fetches = 1
  /\ search.scans = MaxHits

\* the positions of the case-folded text at which the case-folded query occurs
MatchPositions(text, query) ==
  LET lt == ToLowerCase(text)
      lq == ToLowerCase(query)
  IN  {p \in 0..(Len(lt) - Len(lq)) : SubSeq(lt, p + 1, p + Len(lq)) = lq}

Ascending(P) ==
  [i \in 1..Cardinality(P) |-> CHOOSE p \in P : Cardinality({x \in P : x < p}) = i - 1]

\* chapter by chapter, every match position in ascending order
RECURSIVE ExpectedHits(_)
ExpectedHits(n) ==
  IF n = 0 THEN <<>>
  ELSE LET ps == Ascending(MatchPositions(search.texts[n], search.query)) IN
       ExpectedHits(n - 1)
         \o [i \in 1..Len(ps) |-> [path |-> search.chapters[n].path, offset |-> ps[i]]]

\* C5: while the cap has not been reached, the hits of the chapters scanned
\* so far are, in catalog order and ascending within a chapter, exactly the
\* positions at which the case-folded query occurs in the case-folded text,
\* overlapping occurrences included; no chapters means no hits.
C5_AllOccurrences ==
  /\ (pc # "scan" /\ ~CapReached(search.results)) =>
       [i \in 1..Len(search.results) |->
          [path |-> search.results[i].chapterPath,
           offset |-> search.results[i].markdownOffset]] = ExpectedHits(search.ci)
  /\ (Succeeded("search_in_book") /\ search.chapters = <<>>) => outcome.body = <<>>

\* a two-character query found at positions 0 and 1 of a chapter whose text
\* differs from the query in case
C5_Witness ==
  /\ Succeeded("search_in_book")
  /\ Len(search.query) = 2
  /\ Len(outcome.body) >= 2
  /\ outcome.body[1].markdownOffset = 0
  /\ outcome.body[2].markdownOffset = 1
  /\ outcome.body[1].chapterPath = outcome.body[2].chapterPath
  /\ search.texts[1] # ToLowerCase(search.texts[1])

\* C6: the snippet of a hit at offset i is the original text from
\* max(0, i - 200) to min(length, i + length of the query + 200).
C6_Snippet ==
  \A i \in 1..Len(search.results) : \A k \in 1..search.ci :
    LET hit == search.results[i]
        text == search.texts[k]
        from == IF hit.markdownOffset > SnippetWindow
                THEN hit.markdownOffset - SnippetWindow ELSE 0
        upto == hit.markdownOffset + Len(search.query) + SnippetWindow
    IN  search.chapters[k].path = hit.chapterPath =>
          hit.snippet = SubSeq(text, from + 1, IF upto < Len(text) THEN upto ELSE Len(text))

\* a hit with 200 characters of context on both sides, in a text that goes
\* on beyond both, the match being in upper case in the text
C6_Witness ==
  /\ Succeeded("search_in_book")
  /\ Len(outcome.body) = 1
  /\ outcome.body[1].markdownOffset = SnippetWindow + 1
  /\ Len(outcome.body[1].snippet) = 2 * SnippetWindow + 1
  /\ outcome.body[1].snippet[SnippetWindow + 1] = "A"
  /\ Len(search.texts[1]) > 2 * SnippetWindow + 1

\* the chapter of a get_chapter_content_markdown call, when it can be read
Readable ==
  /\ env.fetch = "ok"
  /\ env.zipOk
  /\ FindEntry(env.entries, req.args.path).kind = "file"
ReaderText == htmlToMarkdown(FindEntry(env.entries, req.args.path).data)
ReaderOffset == ArgOffset(req.args)
ReaderLength == ArgLength(req.args)

\* C7: for every offset and length, inside [0, text.length] or not, the
\* reader answers without error with the characters between the two clamped
\* ends of the window, followed by the continuation marker naming
\* offset + length exactly when offset + length < text.length.
C7_Chunk ==
  (Replied("get_chapter_content_markdown") /\ Readable) =>
    LET n == Len(ReaderText)
        last == ReaderOffset + ReaderLength
        a == IF ReaderOffset < 0 THEN 0 ELSE IF ReaderOffset > n THEN n ELSE ReaderOffset
        b == IF last < 0 THEN 0 ELSE IF last > n THEN n ELSE last
        content == IF a <= b THEN SubSeq(ReaderText, a + 1, b) ELSE SubSeq(ReaderText, b + 1, a)
    IN  /\ ~outcome.isError
        /\ outcome.body =
             IF last < n
             THEN content \o <<"\n\n... (truncated, use offset ", ToString(last), " to read more)">>
             ELSE content

\* the second character of a three-character text, followed by the marker
\* that names offset 2
C7_Witness ==
  /\ Replied("get_chapter_content_markdown")
  /\ Readable
  /\ Len(ReaderText) = 3
  /\ ReaderOffset = 1
  /\ ReaderLength = 1
  /\ Len(outcome.body) = 4
  /\ outcome.body[1] = ReaderText[2]
  /\ outcome.body[3] = "2"

\* C8 as stated: from offset 0 a length of at least text.length returns the
\* whole text without marker, and an offset of at least text.length returns
\* the empty string for every length.
C8_Boundary ==
  (Replied("get_chapter_content_markdown") /\ Readable) =>
    /\ (ReaderOffset = 0 /\ ReaderLength >= Len(ReaderText)) => outcome.body = ReaderText
    /\ ReaderOffset >= Len(ReaderText) => outcome.body = <<>>

\* C8 as amended: from offset 0 a length of at least text.length returns the
\* whole text without marker, and an offset of at least text.length returns
\* the empty string for every length that is not negative.
C8_BoundaryNonNegativeLength ==
  (Replied("get_chapter_content_markdown") /\ Readable) =>
    /\ (ReaderOffset = 0 /\ ReaderLength >= Len(ReaderText)) => outcome.body = ReaderText
    /\ (ReaderOffset >= Len(ReaderText) /\ ReaderLength >= 0) => outcome.body = <<>>

\* an offset at the end of a text that is not empty, a positive length, and
\* an empty answer
C8_Witness ==
  /\ Replied("get_chapter_content_markdown")
  /\ Readable
  /\ Len(ReaderText) > 0
  /\ ReaderOffset = Len(ReaderText)
  /\ ReaderLength > 0
  /\ outcome.body = <<>>

\* C9: of an archive that was delivered and opened and whose container and
\* package documents can be read, list_chapters fails exactly when the
\* container entry is absent or a directory, the container names no root
\* file, or the package entry is absent or a directory.
C9_OnlyRequiredDocumentsFatal ==
  (Replied("list_chapters") /\ env.fetch = "ok" /\ env.zipOk) =>
    IF NoData(EnvContainer) THEN outcome.isError
    ELSE IF EnvContainer.kind = "corrupt" THEN TRUE
    ELSE IF EnvOpfPath = <<>> \/ NoData(EnvOpfEntry) THEN outcome.isError
    ELSE IF EnvOpfEntry.kind = "corrupt" THEN TRUE
    ELSE ~outcome.isError

\* C10: an error raised by a core operation during a tool call, the unknown
\* tool included, is answered by a result with isError and the error text,
\* under the id of the request; the loop then awaits the next line.
C10_ToolErrorsReported ==
  /\ [](pc = "replied" /\ req.method = "tools/call" /\ thrown # "" =>
          /\ outcome.isError
          /\ outcome.kind = "text"
          /\ outcome.body = <<"Error: ", thrown>>
          /\ Len(sent) > 0
          /\ sent[Len(sent)] = [id |-> req.id, kind |-> "result", code |-> 0, isError |-> TRUE])
  /\ [][pc = "replied" /\ thrown # "" => pc' = "loop" /\ sent' = sent]_vars

\* a failed tool call has been answered, and so has the call of an unknown
\* tool on the line after it
C10_Witness ==
  /\ pc = "replied"
  /\ Len(sent) = 2
  /\ sent[1].isError
  /\ sent[1].id = 1
  /\ req.tool = "nope"
  /\ thrown = "Unknown tool"
  /\ sent[2].id = 2
  /\ sent[2].isError

\* the tools whose operations fetch the archive of a book
ArchiveTools ==
  {"list_epub_files", "get_epub_file", "get_chapter_content",
   "get_chapter_content_markdown", "list_chapters", "search_in_book"}

\* a call of one of them has been answered
ArchiveCallReplied ==
  pc = "replied" /\ req.method = "tools/call" /\ req.tool \in ArchiveTools /\ env # NoArchive

\* the archive fetches the call has begun: one, and one more for every
\* chapter searchInBook has asked for
Attempts == IF req.tool = "search_in_book" THEN 1 + search.fetches ELSE 1

\* C11: a book without EPUB format fails after the metadata request, with no
\* download request; every archive fetch sends the metadata request once and
\* the download request at most once; a request that failed is the last one
\* sent and its error is reported; after a failed fetch or archive read
\* searchInBook fetches no further chapter.
C11_NoEpubNoRetry ==
  ArchiveCallReplied =>
    /\ env.fetch = "noepub" =>
         /\ outcome.isError
         /\ thrown = "Book does not have an EPUB format"
         /\ requests = <<Fetch("metadata", TRUE)>>
    /\ \A i \in 1..Len(requests) :
         /\ requests[i].kind = IF i % 2 = 1 THEN "metadata" ELSE "download"
         /\ i < Len(requests) => requests[i].ok
         /\ ~requests[i].ok => outcome.isError /\ thrown = "Fetch failed"
    /\ Len(requests) <= 2 * Attempts
    /\ Len(requests) >= 2 * Attempts - 1
    /\ req.tool = "search_in_book" =>
         search.fetches = IF thrown # "" /\ search.fetches > 0 THEN search.ci + 1 ELSE search.ci

\* list_chapters on a book without EPUB format: one metadata request, no
\* handle opened, the error reported
C11_Witness ==
  /\ Replied("list_chapters")
  /\ env.fetch = "noepub"
  /\ requests = <<Fetch("metadata", TRUE)>>
  /\ handles = <<>>
  /\ outcome.isError

\* the package document of the request has been read and the navigation
\* resolver has returned
PackageRead ==
  /\ env.fetch = "ok"
  /\ env.zipOk
  /\ EnvContainer.kind = "file"
  /\ EnvOpfPath # <<>>
  /\ EnvOpfEntry.kind = "file"
  /\ getTOCFromEntries(env.entries, EnvOpf, EnvOpfDir).status = "ok"

\* C12: the chapter paths are, in document order, manifest[idref] for the
\* item references whose idref some manifest item declares (the last item
\* of an id giving the path); other item references are skipped without
\* error.
C12_SpineOfManifest ==
  (Replied("list_chapters") /\ PackageRead) =>
    LET manifest == Manifest(EnvOpf.items, EnvOpfDir)
        Declared(idref) == idref \in DOMAIN manifest
        refs == SelectSeq(EnvOpf.spine, Declared)
    IN  /\ ~outcome.isError
        /\ Len(outcome.body) = Len(refs)
        /\ \A i \in 1..Len(refs) : outcome.body[i].path = manifest[refs[i]]

EnvTocResult == getTOCFromEntries(env.entries, EnvOpf, EnvOpfDir)
EnvLegacy == LegacyToc(env.entries, EnvOpf, EnvOpfDir)
EnvModern == ModernToc(env.entries, EnvOpf, EnvOpfDir)
EnvSpine == Spine(EnvOpf.spine, Manifest(EnvOpf.items, EnvOpfDir))

\* the title list_chapters gives a path under the table of contents toc
TitleUnder(toc, path) ==
  LET S == {t \in 1..Len(toc) : toc[t].path = path} IN
  IF S = {} THEN LastSegment(path) ELSE toc[CHOOSE t \in S : \A u \in S : t <= u].title

\* C13: when the legacy tier yields an entry, the table of contents is the
\* legacy one and the modern document is not read; when it yields none, the
\* modern tier is consulted after it and its result is the table of
\* contents, empty when it yields none either; the titles of list_chapters
\* are those of that table.
C13_LegacyThenModern ==
  (Succeeded("list_chapters") /\ PackageRead) =>
    LET expected == IF Len(EnvLegacy.toc) > 0 THEN EnvLegacy.toc ELSE EnvModern.toc IN
    /\ EnvTocResult.toc = expected
    /\ EnvTocResult.reads =
         IF Len(EnvLegacy.toc) > 0 THEN EnvLegacy.reads ELSE EnvLegacy.reads \o EnvModern.reads
    /\ (Len(EnvLegacy.toc) = 0 /\ Len(EnvModern.toc) = 0) => EnvTocResult.toc = <<>>
    /\ \A i \in 1..Len(outcome.body) :
         outcome.body[i].title = TitleUnder(expected, outcome.body[i].path)

\* both documents are in the archive and both name the first chapter: the
\* chapter carries the title of the legacy document, the only one read
C13_Witness ==
  /\ Succeeded("list_chapters")
  /\ PackageRead
  /\ Len(EnvLegacy.toc) > 0
  /\ Len(EnvModern.toc) > 0
  /\ EnvTocResult.reads = <<TocDir \o NcxHref>>
  /\ Len(outcome.body) > 0
  /\ outcome.body[1].path = Ch1Path
  /\ outcome.body[1].title = <<"Chapter One">>
  /\ TitleUnder(EnvModern.toc, Ch1Path) = <<"Nav One">>

\* the entries (navPoints or links) of the navigation document that gave
\* the table of contents
EnvPoints ==
  LET reads == EnvTocResult.reads IN
  IF reads = <<>> THEN <<>> ELSE FindEntry(env.entries, reads[Len(reads)]).data

\* the path a content reference resolves to: what precedes its first "#",
\* under the directory of the package document
ResolvedSrc(src) ==
  LET marks == {k \in 1..Len(src) : src[k] = "#"}
      cut == IF marks = {} THEN Len(src) ELSE (CHOOSE k \in marks : \A m \in marks : k <= m) - 1
  IN  _normalizePath(EnvOpfDir \o SubSeq(src, 1, cut))

\* C14: no two entries of the table of contents have the same path, no path
\* holds a "#", and the entries are, in document order, the first navigation
\* entry of every resolved path, each with the title of that first entry.
C14_TocPathsUnique ==
  (Replied("list_chapters") /\ PackageRead) =>
    LET toc == EnvTocResult.toc
        points == EnvPoints
        First(k) == \A j \in 1..(k - 1) : ResolvedSrc(points[j].src) # ResolvedSrc(points[k].src)
        firsts == {k \in 1..Len(points) : First(k)}
        Nth(i) == CHOOSE k \in firsts : Cardinality({j \in firsts : j < k}) = i - 1
    IN  /\ \A i, j \in 1..Len(toc) : toc[i].path = toc[j].path => i = j
        /\ \A i \in 1..Len(toc) : \A k \in 1..Len(toc[i].path) : toc[i].path[k] # "#"
        /\ Len(toc) = Cardinality(firsts)
        /\ \A i \in 1..Len(toc) :
             /\ toc[i].path = ResolvedSrc(points[Nth(i)].src)
             /\ toc[i].title = Trim(points[Nth(i)].label)

\* two navigation entries for one file, the second with a fragment and
\* another label: one entry in the table of contents, titled by the first
C14_Witness ==
  /\ Succeeded("list_chapters")
  /\ PackageRead
  /\ Len(EnvPoints) = 2
  /\ EnvPoints[1].label # EnvPoints[2].label
  /\ \E k \in 1..Len(EnvPoints[2].src) : EnvPoints[2].src[k] = "#"
  /\ Len(EnvTocResult.toc) = 1
  /\ EnvTocResult.toc[1].title = Trim(EnvPoints[1].label)
  /\ \E i \in 1..Len(outcome.body) : outcome.body[i].title = Trim(EnvPoints[1].label)

\* the href of the one chapter of the book, in segments, and the paths of
\* the chapter list
EnvHrefSegments == Split(EnvOpf.items[1].href)
OutcomePaths == [i \in 1..Len(outcome.body) |-> outcome.body[i].path]
\* a path as the chapter list shows it (an empty path is no chapter)
AsChapterPaths(path) == IF path = <<>> THEN <<>> ELSE <<path>>
SpecialSegments == {<<>>, <<".">>, <<".", ".">>}
Without(segs, S) ==
  LET Kept(k) == k \notin S
      keep == SelectSeq([k \in 1..Len(segs) |-> k], Kept)
  IN  [i \in 1..Len(keep) |-> segs[keep[i]]]

\* C15: list_chapters never fails on a href; the path it returns has no
\* empty, "." or ".." segment; a named segment followed by ".." can be
\* removed from the href together with the ".." without changing the result
\* (a/b/../c gives what a/c gives, under every package directory); and with
\* the package document at the root, leading ".." segments change nothing.
C15_NormalizeResolvesParents ==
  Replied("list_chapters") =>
    LET segs == EnvHrefSegments
        Under(ss) == AsChapterPaths(_normalizePath(EnvOpfDir \o Join(ss)))
    IN  /\ ~outcome.isError
        /\ \A i \in 1..Len(OutcomePaths) :
             \A j \in 1..Len(Split(OutcomePaths[i])) :
               Split(OutcomePaths[i])[j] \notin SpecialSegments
        /\ \A k \in 1..(Len(segs) - 1) :
             (segs[k] \notin SpecialSegments /\ segs[k + 1] = <<".", ".">>) =>
               OutcomePaths = Under(Without(segs, {k, k + 1}))
        /\ (EnvOpfDir = <<>> /\ segs[1] = <<".", ".">>) =>
             OutcomePaths = Under(Without(segs, {1}))
        /\ EnvOpf.items[1].href = <<"a", "/", "b", "/", ".", ".", "/", "c">> =>
             OutcomePaths = Under(<<<<"a">>, <<"c">>>>)

\* a/b/../c under OEBPS/ is listed as OEBPS/a/c
C15_Witness ==
  /\ Succeeded("list_chapters")
  /\ EnvOpfDir = TocDir
  /\ EnvOpf.items[1].href = <<"a", "/", "b", "/", ".", ".", "/", "c">>
  /\ OutcomePaths = <<TocDir \o <<"a", "/", "c">>>>

Entities ==
  [name \in {"nbsp;", "amp;", "lt;", "gt;", "quot;"} |->
     CASE name = "nbsp;" -> " " [] name = "amp;" -> "&" [] name = "lt;" -> "<"
       [] name = "gt;" -> ">" [] OTHER -> "\""]

\* every entity of the text replaced by its character, in one pass
RECURSIVE DecodedOnce(_)
DecodedOnce(s) ==
  IF Len(s) < 2 THEN s
  ELSE IF s[1] = "&" /\ s[2] \in DOMAIN Entities
       THEN <<Entities[s[2]]>> \o DecodedOnce(SubSeq(s, 3, Len(s)))
       ELSE <<s[1]>> \o DecodedOnce(Tail(s))

EnvMarkup == FindEntry(env.entries, req.args.path).data

\* C16: the converted text is the markup with every one of the five
\* entities replaced by its character, nothing that a replacement produced
\* being replaced again, and trimmed; &amp;lt; becomes &lt;.
C16_EntitiesDecodedOnce ==
  (Replied("get_chapter_content_markdown") /\ Readable) =>
    /\ ~outcome.isError
    /\ outcome.body = Trim(DecodedOnce(EnvMarkup))
    /\ EnvMarkup = <<"&", "amp;", "lt;">> => outcome.body = <<"&", "lt;">>

\* C17: every search_in_book call that has begun is answered, and it
\* evaluates the scan condition at most once per hit and once more per
\* chapter, the empty query and empty chapters included.
C17_SearchTerminates ==
  /\ [](search.scans <= MaxHits + Len(search.chapters))
  /\ (pc \in {"fetch", "scan"}) ~> (pc = "replied")

\* the empty query on a chapter of one character: found at 0 and at 1 and
\* then at 1 again and again, until the 50th hit ends the search
C17_Witness ==
  /\ Succeeded("search_in_book")
  /\ search.query = <<>>
  /\ Len(search.texts) = 1
  /\ Len(search.texts[1]) = 1
  /\ Len(outcome.body) = MaxHits
  /\ outcome.body[MaxHits].markdownOffset = 1
  /\ search.scans = MaxHits
\* the scan of the current chapter reports one more hit
HitReported ==
  /\ pc = "scan"
  /\ search'.ci = search.ci
  /\ Len(search'.results) = Len(search.results) + 1

\* C18: within the scan of one chapter, every hit after the first lies at
\* a greater offset than the hit before it, whatever the query, the empty
\* query included.
C18_OffsetsIncrease ==
  [][(HitReported /\ search.index # -1) =>
       search'.results[Len(search'.results)].markdownOffset > search.index]_vars

\* the methods the loop answers: initialize itself, the others by a handler
Registered == {"initialize", "prompts/list", "prompts/get", "tools/list", "tools/call"}

\* the reply due to the request of the line that has been handled
ExpectedReply ==
  IF req.method \notin Registered THEN sendError(req.id, MethodNotFound)
  ELSE IF outcome # NoResult THEN sendResponse(req.id, outcome)
  ELSE IF req.method = "prompts/get" /\ req.tool = "other"
       THEN sendError(req.id, InvalidParams)
  ELSE sendError(req.id, InternalError)

\* a line is taken from the input
LineRead == nlines' = nlines + 1
\* the handling of the line ends
LineHandled == pc # "replied" /\ pc' = "replied"

\* C19: lines are read one at a time, each only when the line before it has
\* been handled; the handling of a request (a message with method and id)
\* writes exactly one reply, under the id of the request: the result of the
\* handler, error -32601 when there is no handler, the code of the McpError
\* thrown, or -32603 for another exception; nothing else is written, so a
\* notification gets no reply, and no reply follows once the line is handled.
C19_OneReplyPerRequest ==
  /\ [](pc = "replied" /\ req.kind = "request" =>
          Len(sent) > 0 /\ sent[Len(sent)] = ExpectedReply)
  /\ [][/\ nlines' # nlines => pc = "loop" /\ LineRead
        /\ pc' = "loop" => pc = "replied"
        /\ pc \in {"fetch", "scan"} => req' = req
        /\ sent' # sent =>
             /\ LineHandled
             /\ req'.kind = "request"
             /\ Len(sent') = Len(sent) + 1
             /\ SubSeq(sent', 1, Len(sent)) = sent
             /\ sent'[Len(sent')].id = req'.id
        /\ (LineHandled /\ req'.kind = "request") => sent' # sent]_vars

\* a request without a handler has been answered with -32601, and after it
\* a prompts/get for an unknown prompt with the code of its McpError
C19_Witness ==
  /\ pc = "replied"
  /\ Len(sent) = 2
  /\ sent[1] = sendError(1, MethodNotFound)
  /\ req.method = "prompts/get"
  /\ sent[2] = sendError(2, InvalidParams)

\* the line read is blank or is not JSON
BadLine == LineRead /\ req'.kind \in {"blank", "invalid"}

\* C20: a blank line, and a line that is not valid JSON, write no reply and
\* leave the loop awaiting the next line; a request on a line after it is
\* answered under its id.
C20_BadLineSkipped ==
  /\ [][BadLine => sent' = sent /\ pc' = "replied"]_vars
  /\ [][(pc = "replied" /\ req.kind \in {"blank", "invalid"}) => pc' = "loop"]_vars
  /\ [](pc = "replied" /\ req.kind = "request" /\ Len(sent) < nlines =>
          sent[Len(sent)].id = req.id /\ req.id = nlines)

\* a request has been answered, and the line after it is not JSON
C20_Witness ==
  /\ pc = "replied"
  /\ req.kind = "invalid"
  /\ nlines = 2
  /\ Len(sent) = 1
  /\ sent[1].id = 1

\* the converted text of the chapter the client reads
ChunkedText == htmlToMarkdown(FindEntry(reader.book.entries, ChapterFile).data)

====
